---- MODULE Spec2Model ----
(***************************************************************************)
(* Model of src/main.rs of sebkur/memory: per-application resident memory  *)
(* report.  Strings are sequences of one-character strings, an Option is a *)
(* sequence of length 0 (None) or 1 (Some).                                *)
(***************************************************************************)
EXTENDS Integers, Sequences, FiniteSets, Bags, TLC

None == <<>>
Some(x) == <<x>>

\* ---------------------------------------------------------------- bounds
\* arguments after argument-zero in an enumerated argument vector
MaxArgs == 3
\* directory entries one enumeration pass yields
MaxProcs == 3

\* ------------------------------------------------------- string literals
S_java == <<"j","a","v","a">>
S_javaw == <<"j","a","v","a","w">>
S_usr_bin_javaw == <<"/","u","s","r","/","b","i","n","/","j","a","v","a","w">>
S_bash == <<"b","a","s","h">>
S_bin_bash_l == <<"/","b","i","n","/","b","a","s","h"," ","-","l">>
S_jar == <<"-","j","a","r">>
S_cp == <<"-","c","p">>
S_classpath == <<"-","c","l","a","s","s","p","a","t","h">>
S_class_path == <<"-","-","c","l","a","s","s","-","p","a","t","h">>
S_Xmx == <<"-","X","m","x","5","1","2","m">>
S_server_jar_path == <<"/","o","p","t","/","a","p","p","/","s","e","r","v","e","r","-","1",".","2",".","j","a","r">>
S_libs == <<"/","l","i","b","/","a",".","j","a","r",":","/","l","i","b","/","b",".","j","a","r">>
S_main_class == <<"c","o","m",".","e","x","a","m","p","l","e",".","S","e","r","v","e","r">>
S_Server == <<"S","e","r","v","e","r">>
S_port == <<"-","-","p","o","r","t","=","8","0","8","0">>
S_dotdot == <<".",".">>
S_openjdk_path == <<"/","u","s","r","/","l","i","b","/","o","p","e","n","j","d","k">>
S_openjdk == <<"o","p","e","n","j","d","k">>
S_root == <<"/">>
S_java_colon == <<"j","a","v","a",":"," ">>
S_java_paren == <<"j","a","v","a"," ","(">>
S_close == <<")">>

\* ------------------------------------------------------ string functions
\* str::starts_with
starts_with(s, p) == Len(s) >= Len(p) /\ SubSeq(s, 1, Len(p)) = p

\* slice::split / str::split on one separator: the pieces between separators
RECURSIVE split(_, _)
split(s, c) ==
  IF \A k \in 1..Len(s) : s[k] # c
  THEN <<s>>
  ELSE LET k == CHOOSE j \in 1..Len(s) : s[j] = c /\ \A m \in 1..(j-1) : s[m] # c
       IN <<SubSeq(s, 1, k - 1)>> \o split(SubSeq(s, k + 1, Len(s)), c)

\* Path::file_name: the last component when it is a normal one; separators
\* repeat and "." components are dropped, a path ending in ".." has none
file_name(path) ==
  LET comps == SelectSeq(split(path, "/"), LAMBDA c : c # <<>> /\ c # <<".">>)
  IN IF comps = <<>> THEN None
     ELSE IF comps[Len(comps)] = S_dotdot THEN None
     ELSE Some(comps[Len(comps)])

\* app.rsplit('.').next().unwrap_or(&app): the piece after the last '.'
rsplit_dot_next(app) ==
  LET parts == split(app, ".") IN parts[Len(parts)]

\* ------------------------------------------------------- /proc readers
\* A cmdline file is None (unreadable) or Some(args): the NUL-terminated
\* arguments in order.  data.split(0).next() is the first argument, or the
\* empty string when the file is empty.
read_cmdname(cmdfile) ==
  IF cmdfile = None THEN None
  ELSE LET args == cmdfile[1]
           first == IF args = <<>> THEN <<>> ELSE args[1]
           argv0 == split(first, " ")[1]
       IN IF argv0 = <<>> THEN None ELSE file_name(argv0)

\* A status file is [kind, kb]: kind is "nofile" (unreadable), "absent" (no
\* VmRSS line), "garbled" (a VmRSS line whose value does not parse) or
\* "value" (a VmRSS line of kb kilobytes)
read_status_vmrss_kb(status) ==
  CASE status.kind = "nofile" -> None
    [] status.kind = "garbled" -> None
    [] status.kind = "absent" -> Some(0)
    [] OTHER -> Some(status.kb)

read_cmdline(cmdfile) ==
  IF cmdfile = None THEN None
  ELSE Some(SelectSeq(cmdfile[1], LAMBDA s : s # <<>>))

\* faulty variant: the whole link target instead of its last component
exe_basename_bug(exe) == IF exe = None THEN None ELSE Some(exe[1])

\* exe is None (link unreadable) or Some(path)
exe_basename(exe) ==
  IF exe = None THEN None ELSE file_name(exe[1])

\* ------------------------------------------------------ Java identity
parse_java_strategy(arg) ==
  CASE arg = Some("--java-by=jar") -> "Jar"
    [] arg = Some("--java-by=main") -> "Main"
    [] OTHER -> "Auto"

\* faulty variant: the long spelling --class-path is not recognised
is_classpath_opt_bug(tok) == tok = S_cp \/ tok = S_classpath

\* tok == "-cp" || tok == "-classpath" || tok == "--class-path"
is_classpath_opt(tok) ==
  tok = S_cp \/ tok = S_classpath \/ tok = S_class_path

\* the i += 2 / i += 1 of both scans
opt_advance(tok) == IF is_classpath_opt(tok) THEN 2 ELSE 1

\* faulty variant: the guard lets i + 1 equal the length
has_jar_value_bug(cmdline, i) == i + 1 <= Len(cmdline)

\* i + 1 < cmdline.len(), the guard of the read of the jar token
has_jar_value(cmdline, i) == i + 1 < Len(cmdline)

\* i < cmdline.len(), the loop test of both scans
in_loop(cmdline, i) == i < Len(cmdline)

\* slice::get: the checked read
get(cmdline, i) == IF i < Len(cmdline) THEN Some(cmdline[i + 1]) ELSE None

\* indices are the source's, from 0: cmdline[i] is at(cmdline, i)
at(cmdline, i) == cmdline[i + 1]

RECURSIVE find_jar_name_from(_, _)
find_jar_name_from(cmdline, i) ==
  IF in_loop(cmdline, i)
  THEN LET tok == at(cmdline, i)
       IN IF tok = S_jar
          THEN IF has_jar_value(cmdline, i)
               THEN file_name(at(cmdline, i + 1))
               ELSE None
          ELSE IF starts_with(tok, <<"-">>)
               THEN find_jar_name_from(cmdline, i + opt_advance(tok))
               ELSE None
  ELSE None

find_jar_name(cmdline) == find_jar_name_from(cmdline, 1)

RECURSIVE find_main_class_from(_, _)
find_main_class_from(cmdline, i) ==
  IF in_loop(cmdline, i) /\ starts_with(at(cmdline, i), <<"-">>)
  THEN find_main_class_from(cmdline, i + opt_advance(at(cmdline, i)))
  ELSE get(cmdline, i)

find_main_class(cmdline) == find_main_class_from(cmdline, 1)

java_display_name(cmdline, strat) ==
  CASE strat = "Jar" -> find_jar_name(cmdline)
    [] strat = "Main" -> find_main_class(cmdline)
    [] OTHER -> IF find_jar_name(cmdline) # None
                THEN find_jar_name(cmdline)
                ELSE find_main_class(cmdline)

\* comm == "java" || comm == "javaw"
is_java(comm) == comm = S_java \/ comm = S_javaw

\* the key of a sample whose command name is comm (main, the `let key`)
resolve_key(comm, cmdfile, exe, strat) ==
  IF is_java(comm)
  THEN LET cmdline == IF read_cmdline(cmdfile) = None THEN <<>>
                      ELSE read_cmdline(cmdfile)[1]
           app == java_display_name(cmdline, strat)
       IN IF app # None
          THEN S_java_colon \o rsplit_dot_next(app[1])
          ELSE LET e == IF exe_basename(exe) = None THEN S_java
                        ELSE exe_basename(exe)[1]
               IN S_java_paren \o e \o S_close
  ELSE comm

\* --------------------------------------------------------------- main
\* args.get(0).and_then(|s| s.parse().ok()).unwrap_or(20)
DefaultLimit == 20

parse_limit(arg) == IF arg = None THEN DefaultLimit ELSE arg[1]

\* faulty variant: a MemTotal of zero is accepted
memtotal_ok_bug(m) == m # None /\ m[1] >= 0

\* Some(v) if v > 0
memtotal_ok(m) == m # None /\ m[1] > 0

Digits == { "0", "1", "2", "3", "4", "5", "6", "7", "8", "9" }
is_numeric_dir(name) == name # <<>> /\ \A k \in 1..Len(name) : name[k] \in Digits

\* faulty variant: zero resident memory is not dropped
is_zero_rss_bug(rss_kb) == rss_kb < 0

\* if rss_kb == 0 { continue; }
is_zero_rss(rss_kb) == rss_kb = 0

\* the loop body up to the key: None when the entry is passed over, else
\* the key and the resident memory of the sample
sample_of(c, strat) ==
  IF c.name = None THEN None
  ELSE IF ~is_numeric_dir(c.name[1]) THEN None
  ELSE LET rss == read_status_vmrss_kb(c.status)
       IN IF rss = None THEN None
          ELSE IF is_zero_rss(rss[1]) THEN None
          ELSE LET comm == read_cmdname(c.cmdfile)
               IN IF comm = None \/ comm[1] = <<>> THEN None
                  ELSE Some([key |-> resolve_key(comm[1], c.cmdfile2, c.exe, strat),
                             rss_kb |-> rss[1]])

\* faulty variant: a repeat overwrites the memory instead of adding to it
upsert_bug(m, key, rss_kb) ==
  IF key \in DOMAIN m
  THEN [m EXCEPT ![key] = [num |-> @.num + 1, memory |-> rss_kb]]
  ELSE [k \in DOMAIN m \cup {key} |->
          IF k = key THEN [num |-> 1, memory |-> rss_kb] ELSE m[k]]

\* by_key.entry(key).and_modify(..).or_insert(..); a pass sees far fewer
\* than 2^32 processes and far less than 2^64 kB, so neither field wraps
upsert(m, key, rss_kb) ==
  IF key \in DOMAIN m
  THEN [m EXCEPT ![key] = [num |-> @.num + 1, memory |-> @.memory + rss_kb]]
  ELSE [k \in DOMAIN m \cup {key} |->
          IF k = key THEN [num |-> 1, memory |-> rss_kb] ELSE m[k]]

\* faulty variant: the comparison the other way round, an ascending sort
keeps_order_bug(a, b) == a.memory <= b.memory

\* b.1.memory.cmp(&a.1.memory) is Less or Equal: a stays before b
keeps_order(a, b) == b.memory <= a.memory

\* slice::sort_by, a stable sort: each row goes in after the rows that stay
\* before it
RECURSIVE insert_row(_, _)
insert_row(sorted, r) ==
  IF sorted = <<>> THEN <<r>>
  ELSE IF keeps_order(sorted[Len(sorted)], r) THEN Append(sorted, r)
  ELSE Append(insert_row(SubSeq(sorted, 1, Len(sorted) - 1), r), sorted[Len(sorted)])

RECURSIVE sort_by(_)
sort_by(rs) ==
  IF rs = <<>> THEN <<>>
  ELSE insert_row(sort_by(SubSeq(rs, 1, Len(rs) - 1)), rs[Len(rs)])

\* by_key.into_iter().collect(): the map's entries in the order the hash
\* map yields them, which its per-run random seed decides
RECURSIVE Orders(_)
Orders(K) ==
  IF K = {} THEN { <<>> }
  ELSE UNION { { <<k>> \o o : o \in Orders(K \ {k}) } : k \in K }

into_iter(m) ==
  { [i \in 1..Len(o) |-> [key |-> o[i], num |-> m[o[i]].num, memory |-> m[o[i]].memory]] :
      o \in Orders(DOMAIN m) }

\* memory * 100.0 / total_kb, kept exact as a fraction n/d
pct_of(memory, total) == [n |-> memory * 100, d |-> total]

\* faulty variant: cum = pct, the running sum is lost
cum_add_bug(c, pct) == [n |-> pct.n, d |-> pct.d]

\* cum += pct, on fractions of one denominator
cum_add(c, pct) == [n |-> c.n + pct.n, d |-> pct.d]

\* ------------------------------------------------------------ variables
VARIABLES
  \* main: position, parsed arguments, what was read, the aggregation
  pc, limit, jstrategy, memtotal, total_kb, proc_ok, by_key, scanned, cur,
  seen, rows, stdout, cum, exit_code,
  \* one identity resolution: the sample, the strategy, the key
  r_pc, r_sample, r_strat, r_key,
  \* one option-skipping scan: the function, its argument, its index
  s_pc, s_fn, s_cmdline, s_i, s_result, s_reads

mvars == <<pc, limit, jstrategy, memtotal, total_kb, proc_ok, by_key, scanned,
           cur, seen, rows, stdout, cum, exit_code>>
rvars == <<r_pc, r_sample, r_strat, r_key>>
svars == <<s_pc, s_fn, s_cmdline, s_i, s_result, s_reads>>
vars == <<mvars, rvars, svars>>

\* ------------------------------------------------------- enumerated inputs
ArgTokens ==
  { S_jar, S_cp, S_classpath, S_class_path, S_Xmx, S_server_jar_path,
    S_libs, S_main_class, S_port, S_dotdot, <<>> }

RECURSIVE SeqsUpTo(_, _)
SeqsUpTo(S, n) ==
  IF n = 0 THEN { <<>> }
  ELSE LET shorter == SeqsUpTo(S, n - 1)
       IN shorter \cup { Append(q, x) : q \in shorter, x \in S }

\* the argument vectors of section 8 of the specification
DocumentedArgs ==
  { <<S_Xmx, S_jar, S_server_jar_path>>,
    <<S_cp, S_libs, S_main_class, S_port>> }

ArgVectors == SeqsUpTo(ArgTokens, MaxArgs) \cup DocumentedArgs

Launchers == { S_java, S_usr_bin_javaw }
ExeLinks == { None, Some(S_openjdk_path), Some(S_root) }
Strategies == { "Auto", "Jar", "Main" }

\* a Java sample: the cmdline file as read_cmdname read it, as read_cmdline
\* read it afterwards (the same, or gone, or emptied: the process may have
\* exited in between), and the exe link
JavaSamples ==
  { [cmdfile |-> Some(<<l>> \o a), cmdfile2 |-> Some(<<l>> \o a), exe |-> e] :
      l \in Launchers, a \in ArgVectors, e \in ExeLinks }
  \cup
  { [cmdfile |-> Some(<<l>>), cmdfile2 |-> c, exe |-> e] :
      l \in Launchers, c \in { None, Some(<<>>) }, e \in ExeLinks }

MainIdle ==
  /\ pc = "idle" /\ limit = 0 /\ jstrategy = "Auto" /\ memtotal = None
  /\ total_kb = 0 /\ proc_ok = None /\ by_key = <<>> /\ scanned = 0
  /\ cur = None /\ seen = EmptyBag /\ rows = <<>> /\ stdout = <<>>
  /\ cum = [n |-> 0, d |-> 1] /\ exit_code = None
ResolveIdle ==
  /\ r_pc = "idle" /\ r_sample = None /\ r_strat = "Auto" /\ r_key = None
ScanIdle ==
  /\ s_pc = "idle" /\ s_fn = "none" /\ s_cmdline = <<>> /\ s_i = 0
  /\ s_result = None /\ s_reads = {}

\* ------------------------------------------- one identity resolution
InitResolve ==
  /\ MainIdle /\ ScanIdle
  /\ r_pc = "sampled"
  /\ r_sample \in { Some(x) : x \in JavaSamples }
  /\ r_strat \in Strategies
  /\ r_key = None

\* main, lines 177-193, for a sample that passed the memory checks
Resolve ==
  /\ r_pc = "sampled"
  /\ LET x == r_sample[1]
         comm == read_cmdname(x.cmdfile)
     IN /\ comm # None
        /\ r_key' = Some(resolve_key(comm[1], x.cmdfile2, x.exe, r_strat))
  /\ r_pc' = "resolved"
  /\ UNCHANGED <<r_sample, r_strat, mvars, svars>>

NextResolve == Resolve
SpecResolve == InitResolve /\ [][NextResolve]_vars

\* ----------------------------------------- statements about the resolver
\* the argument vector the resolver is handed (empty when the read failed)
ArgVector(x) ==
  IF read_cmdline(x.cmdfile2) = None THEN <<>> ELSE read_cmdline(x.cmdfile2)[1]

IsOption(t) == Len(t) >= 1 /\ t[1] = "-"
TakesValue(t) == t \in { S_cp, S_classpath, S_class_path }

\* position p of v (argument-zero is v[1]) is one the option-skipping scan
\* stands on: the first one after argument-zero, or the one an option at an
\* earlier such position skips to; with jarStops the scan stops at -jar
RECURSIVE Reached(_, _, _)
Reached(v, p, jarStops) ==
  \/ p = 2
  \/ \E q \in 2..(p - 1) :
       /\ Reached(v, q, jarStops)
       /\ IsOption(v[q])
       /\ jarStops => v[q] # S_jar
       /\ p = q + (IF TakesValue(v[q]) THEN 2 ELSE 1)

\* the text after the last c of t (all of t when it holds no c)
AfterLast(t, c) ==
  CHOOSE u \in { SubSeq(t, k, Len(t)) : k \in 1..(Len(t) + 1) } :
    /\ \A j \in 1..Len(u) : u[j] # c
    /\ Len(u) = Len(t) \/ t[Len(t) - Len(u)] = c

\* a path that ends in a file name: not in a separator, "." or ".."
NamesFile(t) == AfterLast(t, "/") \notin { <<>>, <<".">>, <<".", ".">> }

\* C1: for a java/javaw process under the jar-preferred or the automatic
\* strategy, when the option scan reaches -jar and a token (naming a file)
\* follows, the key is "java: " and that token's complete final path
\* component, with no package stripping.
C1_JarKeyIsBasename ==
  (r_pc = "resolved" /\ r_strat \in { "Jar", "Auto" }) =>
    LET v == ArgVector(r_sample[1])
    IN \A p \in 2..(Len(v) - 1) :
         (Reached(v, p, TRUE) /\ v[p] = S_jar /\ NamesFile(v[p + 1])) =>
           r_key = Some(S_java_colon \o AfterLast(v[p + 1], "/"))

\* C2: for a java/javaw process under the main-class-preferred strategy, or
\* the automatic one when jar-preferred yields nothing, the key is "java: "
\* and the text after the last '.' of the first token after argument-zero
\* that the option scan does not skip.
C2_MainClassKey ==
  (/\ r_pc = "resolved"
   /\ \/ r_strat = "Main"
      \/ r_strat = "Auto" /\ find_jar_name(ArgVector(r_sample[1])) = None) =>
    LET v == ArgVector(r_sample[1])
    IN \A p \in 2..Len(v) :
         (Reached(v, p, FALSE) /\ ~IsOption(v[p])) =>
           r_key = Some(S_java_colon \o AfterLast(v[p], "."))

C2_Witness ==
  /\ r_pc = "resolved" /\ r_strat = "Main"
  /\ ArgVector(r_sample[1]) = <<S_java, S_cp, S_libs, S_main_class, S_port>>
  /\ r_key = Some(S_java_colon \o S_Server)

\* the executable's name as the fallback shows it
ExeShown(x) ==
  IF x.exe # None /\ NamesFile(x.exe[1]) THEN AfterLast(x.exe[1], "/")
  ELSE S_java

\* vectors the claim names as holding no name: only argument-zero and JVM
\* flags, or, under jar-preferred, no -jar where the scan stands
NoNameCase(v, strat) ==
  \/ \A p \in 2..Len(v) : IsOption(v[p]) /\ v[p] # S_jar
  \/ strat = "Jar" /\ \A p \in 2..Len(v) : Reached(v, p, TRUE) => v[p] # S_jar

\* C3: when the selected strategy recovers no name, the key is
\* "java (<exe>)" with the executable's basename, "java (java)" without one.
C3_FallbackKey ==
  r_pc = "resolved" =>
    LET x == r_sample[1]
        v == ArgVector(x)
    IN (java_display_name(v, r_strat) = None \/ NoNameCase(v, r_strat)) =>
         r_key = Some(S_java_paren \o ExeShown(x) \o S_close)

C3_Witness ==
  /\ r_pc = "resolved"
  /\ ArgVector(r_sample[1]) = <<S_java, S_Xmx>>
  /\ r_sample[1].exe = Some(S_openjdk_path)
  /\ r_key = Some(S_java_paren \o S_openjdk \o S_close)

\* ------------------------------------- one scan, one loop test at a time
ScanVectors == { <<>> } \cup { <<S_java>> \o a : a \in ArgVectors }

InitScan ==
  /\ MainIdle /\ ResolveIdle
  /\ s_pc = "loop"
  /\ s_fn \in { "find_jar_name", "find_main_class" }
  /\ s_cmdline \in ScanVectors
  /\ s_i = 1
  /\ s_result = None
  /\ s_reads = {}

\* an unchecked read cmdline[j] outside the vector panics
Panics(js) == \E j \in js : j >= Len(s_cmdline)

Return(r) ==
  /\ s_pc' = "returned" /\ s_result' = r /\ s_i' = s_i

\* find_jar_name: the loop test and one pass of the body
JarStep ==
  /\ s_pc = "loop" /\ s_fn = "find_jar_name"
  /\ IF in_loop(s_cmdline, s_i)
     THEN IF Panics({s_i})
          THEN s_pc' = "panicked" /\ s_reads' = s_reads \cup {s_i}
               /\ UNCHANGED <<s_i, s_result>>
          ELSE LET tok == at(s_cmdline, s_i)
               IN IF tok = S_jar
                  THEN IF has_jar_value(s_cmdline, s_i)
                       THEN /\ s_reads' = s_reads \cup {s_i, s_i + 1}
                            /\ IF Panics({s_i + 1})
                               THEN s_pc' = "panicked"
                                    /\ UNCHANGED <<s_i, s_result>>
                               ELSE Return(file_name(at(s_cmdline, s_i + 1)))
                       ELSE s_reads' = s_reads \cup {s_i} /\ Return(None)
                  ELSE /\ s_reads' = s_reads \cup {s_i}
                       /\ IF starts_with(tok, <<"-">>)
                          THEN /\ s_i' = s_i + opt_advance(tok)
                               /\ UNCHANGED <<s_pc, s_result>>
                          ELSE Return(None)
     ELSE s_reads' = s_reads /\ Return(None)
  /\ UNCHANGED <<s_fn, s_cmdline, mvars, rvars>>

\* find_main_class: the loop test and one pass of the body, or the get
MainStep ==
  /\ s_pc = "loop" /\ s_fn = "find_main_class"
  /\ IF in_loop(s_cmdline, s_i)
     THEN /\ s_reads' = s_reads \cup {s_i}
          /\ IF Panics({s_i})
             THEN s_pc' = "panicked" /\ UNCHANGED <<s_i, s_result>>
             ELSE IF starts_with(at(s_cmdline, s_i), <<"-">>)
                  THEN /\ s_i' = s_i + opt_advance(at(s_cmdline, s_i))
                       /\ UNCHANGED <<s_pc, s_result>>
                  ELSE Return(get(s_cmdline, s_i))
     ELSE s_reads' = s_reads /\ Return(get(s_cmdline, s_i))
  /\ UNCHANGED <<s_fn, s_cmdline, mvars, rvars>>

NextScan == JarStep \/ MainStep
\* the scans run to completion: nothing else is scheduled
SpecScan == InitScan /\ [][NextScan]_vars /\ WF_vars(NextScan)

\* the stepwise scans return what the functions above compute
ScanAgrees ==
  s_pc = "returned" =>
    s_result = IF s_fn = "find_jar_name" THEN find_jar_name(s_cmdline)
               ELSE find_main_class(s_cmdline)

\* the scan stands on the last token, which wants a token after it
TrailingOption(fn, v) ==
  /\ Len(v) >= 2
  /\ Reached(v, Len(v), fn = "find_jar_name")
  /\ TakesValue(v[Len(v)]) \/ v[Len(v)] = S_jar

\* C10: both scans terminate on every vector, move the index on by 1 or 2
\* at each pass, never read outside the vector, and yield nothing on an
\* empty vector, on argument-zero alone, and on a trailing -cp, -classpath,
\* --class-path or -jar with no token after it.
C10_ScansTerminateInBounds ==
  /\ [](s_pc # "panicked" /\ s_reads \subseteq 0..(Len(s_cmdline) - 1))
  /\ [][(s_pc = "loop" /\ s_pc' = "loop") => (s_i' - s_i) \in {1, 2}]_vars
  /\ <>(s_pc = "returned")
  /\ [](s_pc = "returned" =>
          ((Len(s_cmdline) <= 1 \/ TrailingOption(s_fn, s_cmdline)) =>
             s_result = None))

C10_Witness ==
  /\ s_pc = "returned" /\ s_fn = "find_main_class"
  /\ s_cmdline = <<S_java, S_Xmx, S_class_path>>
  /\ s_i = 4 /\ s_reads = {1, 2} /\ s_result = None

\* ------------------------------------------------------------ the run
Pid1 == Some(<<"1">>)
Pid42 == Some(<<"4", "2">>)
Rss(kb) == [kind |-> "value", kb |-> kb]
NoRss(kind) == [kind |-> kind, kb |-> 0]

\* what one entry of /proc may be: its name (None: not valid Unicode), its
\* status file, its cmdline file at the two reads, its exe link
Entry(name, status, cmdfile, cmdfile2, exe) ==
  [name |-> name, status |-> status, cmdfile |-> cmdfile, cmdfile2 |-> cmdfile2,
   exe |-> exe]

DirEntries ==
  { Entry(None, Rss(307200), Some(<<S_bash>>), Some(<<S_bash>>), None),
    Entry(Some(<<"s","e","l","f">>), Rss(307200), Some(<<S_bash>>), Some(<<S_bash>>), None),
    Entry(Pid42, NoRss("nofile"), Some(<<S_bash>>), Some(<<S_bash>>), None),
    Entry(Pid42, NoRss("garbled"), Some(<<S_bash>>), Some(<<S_bash>>), None),
    Entry(Pid42, NoRss("absent"), Some(<<>>), Some(<<>>), None),
    Entry(Pid42, Rss(0), Some(<<S_bash>>), Some(<<S_bash>>), None),
    Entry(Pid42, Rss(307200), None, None, None),
    Entry(Pid42, Rss(307200), Some(<<>>), Some(<<>>), None),
    Entry(Pid1, Rss(307200), Some(<<S_bin_bash_l>>), Some(<<S_bin_bash_l>>), None),
    Entry(Pid42, Rss(204800), Some(<<S_bash>>), Some(<<S_bash>>), None),
    Entry(Pid42, Rss(512000), Some(<<S_java, S_Xmx, S_jar, S_server_jar_path>>),
          Some(<<S_java, S_Xmx, S_jar, S_server_jar_path>>), Some(S_openjdk_path)),
    Entry(Pid42, Rss(307200), Some(<<S_usr_bin_javaw, S_main_class>>),
          Some(<<S_usr_bin_javaw, S_main_class>>), Some(S_openjdk_path)),
    Entry(Pid42, Rss(204800), Some(<<S_java, S_main_class>>), None, None) }

LimitArgs == { None, Some(0), Some(1), Some(2) }
StrategyArgs == { None, Some("--java-by=jar"), Some("--java-by=main"),
                  Some("--java-by=auto"), Some("--java-by=fast") }
MemTotalReads == { None, Some(0), Some(1024000) }

Init ==
  /\ ResolveIdle /\ ScanIdle
  /\ pc = "start" /\ limit = 0 /\ jstrategy = "Auto" /\ memtotal = None
  /\ total_kb = 0 /\ proc_ok = None /\ by_key = <<>> /\ scanned = 0
  /\ cur = None /\ seen = EmptyBag /\ rows = <<>> /\ stdout = <<>>
  /\ cum = [n |-> 0, d |-> 1] /\ exit_code = None

\* lines 135-139
ParseArgs ==
  /\ pc = "start"
  /\ \E l \in LimitArgs, j \in StrategyArgs :
       /\ limit' = parse_limit(l)
       /\ jstrategy' = parse_java_strategy(j)
  /\ pc' = "memtotal"
  /\ UNCHANGED <<memtotal, total_kb, proc_ok, by_key, scanned, cur, seen, rows,
                 stdout, cum, exit_code, rvars, svars>>

\* lines 141-149
ReadMemTotal ==
  /\ pc = "memtotal"
  /\ \E m \in MemTotalReads :
       /\ memtotal' = m
       /\ IF memtotal_ok(m)
          THEN total_kb' = m[1] /\ pc' = "opendir" /\ exit_code' = exit_code
          ELSE total_kb' = total_kb /\ pc' = "exited" /\ exit_code' = Some(1)
  /\ UNCHANGED <<limit, jstrategy, proc_ok, by_key, scanned, cur, seen, rows,
                 stdout, cum, rvars, svars>>

\* lines 151-157
OpenProc ==
  /\ pc = "opendir"
  /\ \E ok \in BOOLEAN :
       /\ proc_ok' = Some(ok)
       /\ IF ok THEN pc' = "scan" /\ exit_code' = exit_code
          ELSE pc' = "exited" /\ exit_code' = Some(1)
  /\ UNCHANGED <<limit, jstrategy, memtotal, total_kb, by_key, scanned, cur, seen,
                 rows, stdout, cum, rvars, svars>>

\* lines 159-201: one pass of the loop over the directory
ScanEntry ==
  /\ pc = "scan"
  /\ scanned < MaxProcs
  /\ \E c \in DirEntries :
       /\ cur' = Some(c)
       /\ seen' = seen (+) SetToBag({c})
       /\ LET s == sample_of(c, jstrategy)
          IN by_key' = IF s = None THEN by_key
                       ELSE upsert(by_key, s[1].key, s[1].rss_kb)
  /\ scanned' = scanned + 1
  /\ UNCHANGED <<pc, limit, jstrategy, memtotal, total_kb, proc_ok, rows, stdout,
                 cum, exit_code, rvars, svars>>

\* lines 203-207: the directory is exhausted
SortAndHeader ==
  /\ pc = "scan"
  /\ \E order \in into_iter(by_key) : rows' = sort_by(order)
  /\ stdout' = <<[line |-> "header"]>>
  /\ cum' = [n |-> 0, d |-> total_kb]
  /\ pc' = "render"
  /\ UNCHANGED <<limit, jstrategy, memtotal, total_kb, proc_ok, by_key, scanned,
                 cur, seen, exit_code, rvars, svars>>

\* lines 208-213: one row of rows.into_iter().take(limit)
RenderRow ==
  /\ pc = "render"
  /\ Len(stdout) - 1 < limit /\ Len(stdout) - 1 < Len(rows)
  /\ LET r == rows[Len(stdout)]
         pct == pct_of(r.memory, total_kb)
     IN /\ cum' = cum_add(cum, pct)
        /\ stdout' = Append(stdout, [line |-> "row", key |-> r.key, num |-> r.num,
                                      mb |-> [n |-> r.memory, d |-> 1024],
                                      pct |-> pct, cum |-> cum_add(cum, pct)])
  /\ UNCHANGED <<pc, limit, jstrategy, memtotal, total_kb, proc_ok, by_key, scanned,
                 cur, seen, rows, exit_code, rvars, svars>>

\* line 214
Exit ==
  /\ pc = "render"
  /\ ~(Len(stdout) - 1 < limit /\ Len(stdout) - 1 < Len(rows))
  /\ pc' = "exited" /\ exit_code' = Some(0)
  /\ UNCHANGED <<limit, jstrategy, memtotal, total_kb, proc_ok, by_key, scanned,
                 cur, seen, rows, stdout, cum, rvars, svars>>

Next == ParseArgs \/ ReadMemTotal \/ OpenProc \/ ScanEntry \/ SortAndHeader
          \/ RenderRow \/ Exit
Spec == Init /\ [][Next]_vars

\* ------------------------------------------- statements about the run
\* the sum of the values of a function
RECURSIVE SumOf(_)
SumOf(f) ==
  IF DOMAIN f = {} THEN 0
  ELSE LET x == CHOOSE y \in DOMAIN f : TRUE
       IN f[x] + SumOf([y \in DOMAIN f \ {x} |-> f[y]])

MinOf(a, b) == IF a <= b THEN a ELSE b

\* C4: at every point of the enumeration pass, each key of the map holds
\* the number of non-skipped samples that resolved to it and the sum of
\* their resident memory, and the keys of the map are exactly the keys some
\* non-skipped sample resolved to.
C4_AggregateIsFold ==
  pc \in { "scan", "render", "exited" } =>
    LET sample == [c \in BagToSet(seen) |-> sample_of(c, jstrategy)]
        kept == { c \in DOMAIN sample : sample[c] # None }
        Contributors(k) == { c \in kept : sample[c][1].key = k }
    IN /\ DOMAIN by_key = { sample[c][1].key : c \in kept }
       /\ \A k \in DOMAIN by_key :
            /\ by_key[k].num =
                 SumOf([c \in Contributors(k) |-> CopiesIn(c, seen)])
            /\ by_key[k].memory =
                 SumOf([c \in Contributors(k) |->
                          CopiesIn(c, seen) * sample[c][1].rss_kb])

C4_Witness ==
  /\ pc = "exited" /\ scanned = 3
  /\ S_bash \in DOMAIN by_key
  /\ by_key[S_bash] = [num |-> 2, memory |-> 512000]
  /\ Cardinality(DOMAIN by_key) = 2

\* a candidate the claim calls skipped: memory field unreadable, resident
\* memory zero or absent, command name unreadable or empty
SkippedCandidate(c) ==
  \/ c.status.kind \in { "nofile", "garbled" }
  \/ c.status.kind = "absent"
  \/ c.status.kind = "value" /\ c.status.kb = 0
  \/ c.cmdfile = None
  \/ c.cmdfile[1] = <<>>
  \/ c.cmdfile[1][1] = <<>>

\* C5: a pass of the loop over a skipped candidate leaves the map as it was
\* and leaves the run scanning: it does not exit.
C5_SkipLeavesMap ==
  [][(scanned' = scanned + 1 /\ SkippedCandidate(cur'[1])) =>
       (by_key' = by_key /\ pc' = "scan" /\ exit_code' = None)]_vars

C5_Witness ==
  /\ pc = "exited" /\ exit_code = Some(0) /\ scanned = 3
  /\ SkippedCandidate(cur[1])
  /\ DOMAIN by_key = { S_bash }
  /\ Len(stdout) = 2

Printed == SubSeq(stdout, 2, Len(stdout))
PrintedKeys == { Printed[i].key : i \in 1..Len(Printed) }

\* C6: a run that prints the table prints the header and min(limit, K)
\* rows for K keys, in non-increasing order of total memory, and no dropped
\* key has more total memory than a printed one.
C6_TopRows ==
  (pc = "exited" /\ exit_code = Some(0)) =>
    /\ stdout[1].line = "header"
    /\ Len(Printed) = MinOf(limit, Cardinality(DOMAIN by_key))
    /\ Cardinality(PrintedKeys) = Len(Printed)
    /\ PrintedKeys \subseteq DOMAIN by_key
    /\ \A i \in 1..Len(Printed) :
         /\ Printed[i].mb.n = by_key[Printed[i].key].memory
         /\ Printed[i].num = by_key[Printed[i].key].num
    /\ \A i, j \in 1..Len(Printed) :
         i < j => Printed[i].mb.n >= Printed[j].mb.n
    /\ \A i \in 1..Len(Printed) :
         \A k \in DOMAIN by_key \ PrintedKeys :
           Printed[i].mb.n >= by_key[k].memory

C6_Witness ==
  /\ pc = "exited" /\ limit = 1
  /\ Cardinality(DOMAIN by_key) = 3
  /\ Len(Printed) = 1
  /\ \E k \in DOMAIN by_key : by_key[k].memory < Printed[1].mb.n

\* C7: the order of the rows is a function of the map alone: whatever
\* order the hash map yields its entries in, the same rows come out.
C7_RowOrderDeterministic ==
  pc \in { "render", "exited" } /\ exit_code # Some(1) =>
    \A order \in into_iter(by_key) : sort_by(order) = rows

\* C8: the run exits non-zero exactly when MemTotal is unreadable or zero
\* or /proc cannot be opened, and then before anything is aggregated or
\* printed; otherwise it prints the table and exits zero.
C8_AbortExactly ==
  /\ exit_code = Some(1) =>
       by_key = <<>> /\ stdout = <<>> /\ scanned = 0 /\ seen = EmptyBag
  /\ pc = "exited" =>
       /\ exit_code \in { Some(0), Some(1) }
       /\ exit_code = Some(1) <=>
            (memtotal = None \/ memtotal = Some(0) \/ proc_ok = Some(FALSE))
       /\ exit_code = Some(0) =>
            Len(stdout) >= 1 /\ stdout[1].line = "header"

C8_Witness ==
  /\ pc = "exited" /\ exit_code = Some(1)
  /\ memtotal = Some(0) /\ proc_ok = None /\ stdout = <<>>

\* C9: each printed row's percentage is its memory * 100 / MemTotal, its
\* cumulative percentage is the sum of the percentages printed so far, and
\* the cumulative percentage never decreases from one row to the next.
C9_Percentages ==
  \A i \in 1..Len(Printed) :
    /\ Printed[i].pct.d = memtotal[1]
    /\ Printed[i].pct.n = by_key[Printed[i].key].memory * 100
    /\ Printed[i].cum.d = memtotal[1]
    /\ Printed[i].cum.n = SumOf([j \in 1..i |-> Printed[j].pct.n])
    /\ i > 1 => Printed[i].cum.n >= Printed[i - 1].cum.n

\* limit 1, 500 MB and 300 MB of 1000 MB: one row, 50% and cumulative 50%
C9_Witness ==
  /\ pc = "exited" /\ limit = 1 /\ memtotal = Some(1024000)
  /\ { by_key[k].memory : k \in DOMAIN by_key } = { 512000, 307200 }
  /\ Len(Printed) = 1
  /\ Printed[1].pct.n = 50 * Printed[1].pct.d
  /\ Printed[1].cum.n = 50 * Printed[1].cum.d

====
